---- MODULE Spec2Model ----
(***************************************************************************)
(* A model of src/utils.py: the term-graph resolver (get_components), the  *)
(* embedding-similarity scorer (get_plain_embedding_similarity), the text  *)
(* preprocessor (preprocess), the fine-tuner (fine_tune), the performance  *)
(* reporter (get_score) and the orchestrator (Analyze_models).             *)
(*                                                                         *)
(* Each function has its own specification over the shared variables:      *)
(*   SpecGC     get_components on a bounded term-matching table            *)
(*   Spec       an Analyze_models sweep, step by step                      *)
(*   SpecPre    preprocess on a bounded text                               *)
(*   SpecScore  get_score on bounded label vectors                         *)
(*   SpecEval   the evaluation loop of fine_tune                           *)
(***************************************************************************)
EXTENDS Integers, Sequences, FiniteSets, TLC

VARIABLES
    gcTable,      \* get_components: the term_matching argument, a sequence of <<Term1, Term2>> rows
    gcResult,     \* get_components: what the call did ("none" before the call)
    model_dict,   \* Analyze_models: the tags of model_dict, in the dict's order
    word_pairs,   \* Analyze_models: the word pairs (each named by its number)
    term_matching,\* Analyze_models: the shared term-matching DataFrame
    AllResult,    \* Analyze_models: the results dict, as <<key, value>> entries in insertion order
    pc,           \* Analyze_models: the statement the run is at
    idx,          \* Analyze_models: the index in model_dict of the current tag
    type_data,    \* fine_tune: its text column argument ("" outside fine_tune)
    model,        \* the model object the local name `model` is bound to
    tokenizer,    \* the tokenizer object the local name `tokenizer` is bound to
    ft,           \* fine_tune: result_scores and class_report once computed
    trace,        \* history: the steps run so far, in order
    outcome,      \* Analyze_models: what the caller gets ("none" while running)
    preText,      \* preprocess: the text argument, token by token
    nerCased,     \* preprocess: whether the loaded recogniser needs a name's capital
    preResult,    \* preprocess: what the call returned ("none" before the call)
    y_ground,     \* get_score: the ground-truth label vector
    y_pred_ground,\* get_score: the predicted label vector
    scoreResult,  \* get_score: what the call returned ("none" before the call)
    evMod,        \* fine_tune: the model tag (it decides the batch size)
    evN,          \* fine_tune: the number of examples of the test split
    evPc,         \* fine_tune: where the call is
    test_dataloader, \* fine_tune: the batches of the test loader
    evK,          \* fine_tune: the index of the next test batch
    predictions,  \* fine_tune: the predictions list
    Test_csv,     \* fine_tune: the test_predictions table
    perfArgs,     \* fine_tune: y_ground and y_pred_ground handed to PerformanceMetrics
    trMod,        \* fine_tune training: the model tag
    trN,          \* fine_tune training: the number of examples of the training split
    trPc,         \* fine_tune training: the statement the loop is at
    epoch,        \* fine_tune training: the epochs completed
    remaining,    \* fine_tune training: the examples train_dataloader has yet to yield this epoch
    visits,       \* history: how often each training example was put in a batch
    grads,        \* fine_tune training: the gradients held by the model's parameters
    calls,        \* history: the backward, optimizer.step and zero_grad calls made
    cmLabelDict,  \* get_confusion: label_dict, its items in key order
    cmGround,     \* get_confusion: y_ground
    cmPred,       \* get_confusion: y_pred_ground
    cmPlot        \* get_confusion: the matrix and the tick labels handed to sns.heatmap

gcVars == <<gcTable, gcResult>>

amVars == <<model_dict, word_pairs, term_matching, AllResult, pc, idx, type_data,
            model, tokenizer, ft, trace, outcome>>

preVars == <<preText, nerCased, preResult>>

scVars == <<y_ground, y_pred_ground, scoreResult>>

evVars == <<evMod, evN, evPc, test_dataloader, evK, predictions, Test_csv, perfArgs>>

trVars == <<trMod, trN, trPc, epoch, remaining, visits, grads, calls>>

cmVars == <<cmLabelDict, cmGround, cmPred, cmPlot>>

vars == <<gcVars, amVars, preVars, scVars, evVars, trVars, cmVars>>

(***************************************************************************)
(* Bounds.                                                                 *)
(***************************************************************************)
MaxRows == 3
MaxModels == 2
MaxPairs == 2
MaxTableRows == 2
MaxTextLen == 3
MaxSamples == 3
MaxTest == 9
MaxTrain == 9
MaxPlotted == 2

\* The terms a table cell can hold.
Terms == {"a", "b", "c", "d"}

NoValue == [kind |-> "none"]

(***************************************************************************)
(* get_components (src/utils.py:30-50) and the networkx calls it makes.    *)
(***************************************************************************)

\* A networkx Graph: the nodes in insertion order and the adjacency sets.
EmptyGraph == [nodes |-> <<>>, adj |-> [t \in Terms |-> {}]]

SeqRange(s) == {s[i] : i \in 1..Len(s)}

AddNode(nodes, u) == IF u \in SeqRange(nodes) THEN nodes ELSE Append(nodes, u)

\* add_edge with a fault: the edge is stored in one direction only.
add_edge_directed(g, u, v) ==
    [nodes |-> AddNode(AddNode(g.nodes, u), v),
     adj   |-> [g.adj EXCEPT ![u] = @ \cup {v}]]

\* Graph.add_edges_from, one (first, second) pair: both ends become nodes
\* (if new) and each is put in the other's adjacency.
add_edge(g, u, v) ==
    LET a1 == [g.adj EXCEPT ![u] = @ \cup {v}]
    IN  [nodes |-> AddNode(AddNode(g.nodes, u), v),
         adj   |-> [a1 EXCEPT ![v] = @ \cup {u}]]

RECURSIVE add_edges_from(_, _, _)
add_edges_from(g, rows, i) ==
    IF i > Len(rows) THEN g
    ELSE add_edges_from(add_edge(g, rows[i][1], rows[i][2]), rows, i + 1)

\* networkx _plain_bfs: level by level from the source, collecting what is seen.
RECURSIVE plain_bfs(_, _, _)
plain_bfs(adj, seen, level) ==
    IF level = {} THEN seen
    ELSE LET next == (UNION {adj[v] : v \in level}) \ seen
         IN  plain_bfs(adj, seen \cup next, next)

\* networkx connected_components: for each node in insertion order that no
\* earlier component holds, the set its breadth-first search reaches.
RECURSIVE connected_components(_, _, _, _)
connected_components(g, i, seen, acc) ==
    IF i > Len(g.nodes) THEN acc
    ELSE IF g.nodes[i] \in seen THEN connected_components(g, i + 1, seen, acc)
    ELSE LET c == plain_bfs(g.adj, {g.nodes[i]}, {g.nodes[i]})
         IN  connected_components(g, i + 1, seen \cup c, Append(acc, c))

\* The emptiness test with a fault: it never fires.
IsEmptyNever(tm) == FALSE

\* term_matching.empty
IsEmpty(tm) == Len(tm) = 0

get_components(tm) ==
    IF IsEmpty(tm)
    THEN [kind |-> "raise", error |-> "ValueError", msg |-> "Input dataframe is empty."]
    ELSE LET graph == add_edges_from(EmptyGraph, tm, 1)
         IN  [kind |-> "return",
              components |-> connected_components(graph, 1, {}, <<>>)]

(***************************************************************************)
(* The pandas DataFrame the term-matching table is.                        *)
(***************************************************************************)

\* The cell pandas fills in where a row has no value.
NaN == [cell |-> "NaN"]

\* A DataFrame: its number of rows (the length of its index) and its columns
\* in order, each a name and one value per row.
DataFrame(n, cols) == [nrows |-> n, cols |-> cols]

ColNames(df) == {df.cols[i].name : i \in 1..Len(df.cols)}

ColIndex(df, name) == CHOOSE i \in 1..Len(df.cols) : df.cols[i].name = name

\* term_matching[name] = values, values a list (src/utils.py:79), as pandas runs it:
\*   - a frame with no rows given a non-empty list takes the list's index: it
\*     gets len(values) rows, and the columns it had hold NaN in them;
\*   - otherwise a list whose length is not the row count raises ValueError
\*     and the frame is as it was;
\*   - otherwise the column of that name is overwritten in place if the frame
\*     has one, and appended as the last column if not.
setitem(df, name, values) ==
    IF df.nrows = 0 /\ Len(values) > 0
    THEN LET filled == [i \in 1..Len(df.cols) |->
                           [name |-> df.cols[i].name,
                            vals |-> [r \in 1..Len(values) |-> NaN]]]
             grown == DataFrame(Len(values), filled)
         IN  [ok |-> TRUE,
              df |-> IF name \in ColNames(grown)
                     THEN [grown EXCEPT !.cols[ColIndex(grown, name)].vals = values]
                     ELSE [grown EXCEPT !.cols = Append(@, [name |-> name, vals |-> values])]]
    ELSE IF Len(values) # df.nrows
    THEN [ok |-> FALSE, error |-> "ValueError", df |-> df]
    ELSE [ok |-> TRUE,
          df |-> IF name \in ColNames(df)
                 THEN [df EXCEPT !.cols[ColIndex(df, name)].vals = values]
                 ELSE [df EXCEPT !.cols = Append(@, [name |-> name, vals |-> values])]]

(***************************************************************************)
(* get_plain_embedding_similarity (src/utils.py:53-80).                    *)
(***************************************************************************)

\* The cosine similarity of the two mean-pooled last hidden states of a pair:
\* a value the model's weights and the pair decide.
similarity(m, pair) == [cell |-> "similarity", by |-> m, pair |-> pair]

\* One similarity per pair of word_pairs, in word_pairs order.
similarities(m, wp) == [i \in 1..Len(wp) |-> similarity(m, wp[i])]

SimColumn(mod) == mod \o "_Cosine_Similarity"

get_plain_embedding_similarity(mod, m, tm, wp) ==
    setitem(tm, SimColumn(mod), similarities(m, wp))

(***************************************************************************)
(* Analyze_models (src/utils.py:132-191) and fine_tune (193-329), one      *)
(* statement group at a time.  Any library call of a step may raise: each  *)
(* step takes ok \in BOOLEAN, and neither function has an except clause.   *)
(***************************************************************************)

\* The loader class and the model_dict entry each tag is loaded from.
Loader(mod) ==
    IF mod = "BioGPT"
    THEN [class |-> "GPT2ForSequenceClassification", id |-> "Tokenizer"]
    ELSE [class |-> "AutoModelForSequenceClassification", id |-> "Model"]

\* from_pretrained: a model with the pretrained weights, fine-tuned on nothing.
from_pretrained(mod) == [tag |-> mod, loader |-> Loader(mod), tuned |-> <<>>]

\* The reload with a fault: the name `model` stays bound to the model it held.
reinitialize_kept(mod, old) == old

\* The reinitialisation before the preprocessed pass.
reinitialize(mod, old) == from_pretrained(mod)

\* PreprocessKey with a fault: the raw suffix.
PreprocessKeyAsRaw(mod) == mod \o "_Raw"

RawKey(mod) == mod \o "_Raw"

PreprocessKey(mod) == mod \o "_Preprocess"

ResultKey(mod, column) == IF column = "notes" THEN RawKey(mod) ELSE PreprocessKey(mod)

\* d[key] = value on a dict kept as entries in insertion order.
DictSet(d, key, value) ==
    IF \E i \in 1..Len(d) : d[i].key = key
    THEN [i \in 1..Len(d) |-> IF d[i].key = key THEN [key |-> key, value |-> value] ELSE d[i]]
    ELSE Append(d, [key |-> key, value |-> value])

\* OnFailure with a fault: a failing step is caught and the run goes on.
OnFailureSwallow(next) == next

\* Where the run is after a step raised: no handler, so out of Analyze_models.
OnFailure(next) == "raised"

Mod == model_dict[idx]

Event(op, ok) ==
    [op |-> op, tag |-> Mod, column |-> type_data, model |-> model, ok |-> ok]

\* The control part of a step: the event is logged; on success the run moves
\* to `next`; on failure the exception leaves Analyze_models.
Step(op, ok, next) ==
    /\ trace' = Append(trace, Event(op, ok))
    /\ pc' = IF ok THEN next ELSE OnFailure(next)
    /\ outcome' = IF ok \/ OnFailure(next) # "raised" THEN outcome
                  ELSE [kind |-> "raise", at |-> op, tag |-> Mod, column |-> type_data]

\* Lines 148-151: the empty results dict and ./models/.
AM_Start ==
    /\ pc = "start"
    /\ \E ok \in BOOLEAN :
        /\ trace' = trace
        /\ pc' = IF ~ok THEN "raised" ELSE IF Len(model_dict) = 0 THEN "return" ELSE "load"
        /\ outcome' = IF ok THEN outcome
                      ELSE [kind |-> "raise", at |-> "makedirs", tag |-> "", column |-> ""]
    /\ AllResult' = <<>>
    /\ idx' = 1
    /\ UNCHANGED <<gcVars, preVars, cmVars, trVars, scVars, evVars, model_dict, word_pairs, term_matching, type_data, model, tokenizer, ft>>

\* Lines 154-162: the tag's tokenizer and model, from the pretrained weights.
AM_Load ==
    /\ pc = "load"
    /\ \E ok \in BOOLEAN :
        /\ Step("load", ok, "plain_sim")
        /\ model' = IF ok THEN from_pretrained(Mod) ELSE model
        /\ tokenizer' = IF ok THEN [tag |-> Mod] ELSE tokenizer
    /\ UNCHANGED <<gcVars, preVars, cmVars, trVars, scVars, evVars, model_dict, word_pairs, term_matching, AllResult, idx, type_data, ft>>

\* Lines 165-167: the similarity column of the model as loaded.
AM_PlainSim ==
    /\ pc = "plain_sim"
    /\ \E ok \in BOOLEAN :
        LET r == get_plain_embedding_similarity(Mod, model, term_matching, word_pairs)
        IN  /\ Step("plain_sim", ok /\ r.ok, "ft_split")
            /\ term_matching' = IF ok THEN r.df ELSE term_matching
            /\ type_data' = IF ok /\ r.ok THEN "notes" ELSE type_data
    /\ UNCHANGED <<gcVars, preVars, cmVars, trVars, scVars, evVars, model_dict, word_pairs, AllResult, idx, model, tokenizer, ft>>

\* fine_tune, lines 236-256: the stratified split and the two audit tables.
FT_Split ==
    /\ pc = "ft_split"
    /\ \E ok \in BOOLEAN : Step("split", ok, "ft_train")
    /\ ft' = NoValue
    /\ UNCHANGED <<gcVars, preVars, cmVars, trVars, scVars, evVars, model_dict, word_pairs, term_matching, AllResult, idx, type_data,
                   model, tokenizer>>

\* fine_tune, lines 259-291: the optimizer, the loaders and the training
\* epochs; they change the weights of the model object passed in.
FT_Train ==
    /\ pc = "ft_train"
    /\ \E ok \in BOOLEAN :
        /\ Step("train", ok, "ft_eval")
        /\ model' = IF ok THEN [model EXCEPT !.tuned = Append(@, type_data)] ELSE model
    /\ UNCHANGED <<gcVars, preVars, cmVars, trVars, scVars, evVars, model_dict, word_pairs, term_matching, AllResult, idx, type_data,
                   tokenizer, ft>>

\* fine_tune, lines 296-308: the predictions on the test split.
FT_Eval ==
    /\ pc = "ft_eval"
    /\ \E ok \in BOOLEAN : Step("eval", ok, "ft_save")
    /\ UNCHANGED <<gcVars, preVars, cmVars, trVars, scVars, evVars, model_dict, word_pairs, term_matching, AllResult, idx, type_data,
                   model, tokenizer, ft>>

\* fine_tune, lines 311-320: the model, tokenizer, config and the two CSVs.
FT_Save ==
    /\ pc = "ft_save"
    /\ \E ok \in BOOLEAN : Step("save", ok, "ft_metrics")
    /\ UNCHANGED <<gcVars, preVars, cmVars, trVars, scVars, evVars, model_dict, word_pairs, term_matching, AllResult, idx, type_data,
                   model, tokenizer, ft>>

\* fine_tune, line 323: PerformanceMetrics on the test labels and predictions.
FT_Metrics ==
    /\ pc = "ft_metrics"
    /\ \E ok \in BOOLEAN :
        /\ Step("metrics", ok, "ft_sim")
        /\ ft' = IF ok THEN [kind |-> "scores",
                             Scores |-> <<"Scores", model>>,
                             Report |-> <<"Report", model>>]
                 ELSE ft
    /\ UNCHANGED <<gcVars, preVars, cmVars, trVars, scVars, evVars, model_dict, word_pairs, term_matching, AllResult, idx, type_data,
                   model, tokenizer>>

\* fine_tune, lines 326-329: the similarity column of the fine-tuned model.
FT_Sim ==
    /\ pc = "ft_sim"
    /\ \E ok \in BOOLEAN :
        LET r == get_plain_embedding_similarity(
                     Mod \o "_fine_tune_" \o type_data, model, term_matching, word_pairs)
        IN  /\ Step("ft_sim", ok /\ r.ok, "store")
            /\ term_matching' = IF ok THEN r.df ELSE term_matching
    /\ UNCHANGED <<gcVars, preVars, cmVars, trVars, scVars, evVars, model_dict, word_pairs, AllResult, idx, type_data, model, tokenizer, ft>>

\* Lines 170-172 and 187-190: fine_tune's scores and report go into AllResult;
\* after the raw pass comes the reload, after the preprocessed pass the next
\* tag, or the return.
AM_Store ==
    /\ pc = "store"
    /\ AllResult' = DictSet(AllResult, ResultKey(Mod, type_data),
                            [Scores |-> ft.Scores, Report |-> ft.Report])
    /\ trace' = Append(trace, Event("store", TRUE))
    /\ IF type_data = "notes"
       THEN pc' = "reload" /\ idx' = idx
       ELSE IF idx < Len(model_dict)
       THEN pc' = "load" /\ idx' = idx + 1
       ELSE pc' = "return" /\ idx' = idx
    /\ type_data' = ""
    /\ ft' = NoValue
    /\ UNCHANGED <<gcVars, preVars, cmVars, trVars, scVars, evVars, model_dict, word_pairs, term_matching, model, tokenizer, outcome>>

\* Lines 175-184: tokenizer and model are loaded again from the pretrained weights.
AM_Reload ==
    /\ pc = "reload"
    /\ \E ok \in BOOLEAN :
        /\ Step("reload", ok, "ft_split")
        /\ model' = IF ok THEN reinitialize(Mod, model) ELSE model
        /\ tokenizer' = IF ok THEN [tag |-> Mod] ELSE tokenizer
        /\ type_data' = IF ok THEN "notes_preprocess" ELSE type_data
    /\ UNCHANGED <<gcVars, preVars, cmVars, trVars, scVars, evVars, model_dict, word_pairs, term_matching, AllResult, idx, ft>>

\* Line 191.
AM_Return ==
    /\ pc = "return"
    /\ pc' = "done"
    /\ outcome' = [kind |-> "return", term_matching |-> term_matching, AllResult |-> AllResult]
    /\ UNCHANGED <<gcVars, preVars, cmVars, trVars, scVars, evVars, model_dict, word_pairs, term_matching, AllResult, idx, type_data,
                   model, tokenizer, ft, trace>>

(***************************************************************************)
(* preprocess (src/utils.py:82-114) and the spaCy pipeline nlp it calls.   *)
(* A text is the sequence of the tokens nlp splits it into.                *)
(***************************************************************************)

\* The tokens an input text is made of.
Vocabulary == {"The", "patients", "London", ",", "y/o", "45"}

\* token.lemma_: proper nouns keep their form.
lemma_(w) ==
    CASE w = "The" -> "the"
      [] w = "patients" -> "patient"
      [] OTHER -> w

\* str.lower() on a lemma.
lower(w) ==
    CASE w = "The" -> "the"
      [] w = "London" -> "london"
      [] OTHER -> w

\* str.replace(',', '') on a lemma.
strip_commas(w) == IF w = "," THEN "" ELSE w

is_stop(w) == w \in {"The", "the"}

is_punct(w) == w = ","

is_space(w) == FALSE

\* The label the entity recogniser gives a token, "" for none.  Whether it
\* knows a lower-cased name is a property of the loaded pipeline (cased).
ent_label(w, cased) ==
    CASE w = "London" -> "GPE"
      [] w = "london" /\ ~cased -> "GPE"
      [] w = "45" -> "CARDINAL"
      [] OTHER -> ""

RECURSIVE ents(_, _, _)
\* doc.ents as the loops of lines 96-98 and 109-111 collect it: [lemma, label]
\* of every entity of the parsed text, in text order.
ents(doc, cased, i) ==
    IF i > Len(doc) THEN <<>>
    ELSE (IF ent_label(doc[i], cased) # ""
          THEN << <<lemma_(doc[i]), ent_label(doc[i], cased)>> >>
          ELSE <<>>) \o ents(doc, cased, i + 1)

RECURSIVE replace_yo(_, _)
\* text.replace('y/o', ' year old ') followed by nlp: the tokens of the new text.
replace_yo(text, i) ==
    IF i > Len(text) THEN <<>>
    ELSE (IF text[i] = "y/o" THEN <<"year", "old">> ELSE <<text[i]>>)
             \o replace_yo(text, i + 1)

RECURSIVE normalize(_, _)
\* Line 106: the lower-cased, comma-free lemma of every token that is no stop
\* word, punctuation or space and whose stripped lemma is not empty; the
\* " ".join of them is the normalized text, read here word by word.
normalize(doc, i) ==
    IF i > Len(doc) THEN <<>>
    ELSE (IF ~is_stop(doc[i]) /\ ~is_punct(doc[i]) /\ ~is_space(doc[i])
               /\ lower(lemma_(doc[i])) # ""
          THEN <<strip_commas(lower(lemma_(doc[i])))>>
          ELSE <<>>) \o normalize(doc, i + 1)

\* The three values of line 114.  ner_preprocess is read from doc, the parse
\* of the text after the y/o substitution (lines 104 and 109).
preprocess(text, cased) ==
    LET ner_raw == ents(text, cased, 1)
        doc == replace_yo(text, 1)
        normalized == normalize(doc, 1)
        ner_preprocess == ents(doc, cased, 1)
    IN  [kind |-> "return", value |-> <<ner_raw, normalized, ner_preprocess>>]

(***************************************************************************)
(* get_score (src/utils.py:332-345) and the sklearn metrics it calls, with *)
(* average='weighted'.  A score is kept in thousandths of a percent, the   *)
(* three decimals round(..., 3) keeps: 100.0 is 100000.                    *)
(***************************************************************************)

\* The label ids 0 .. NumLabels-1 (label_dict_small has three, line 421).
NumLabels == 3

Labels == 0..(NumLabels - 1)

Count(S) == Cardinality(S)

\* Per label: the examples predicted right, the examples predicted as it and
\* the examples that are it (sklearn's tp_sum, pred_sum, true_sum).
tp_sum(y, p, c) == Count({i \in 1..Len(y) : y[i] = c /\ p[i] = c})

pred_sum(y, p, c) == Count({i \in 1..Len(p) : p[i] = c})

true_sum(y, p, c) == Count({i \in 1..Len(y) : y[i] = c})

\* num/den to the nearest integer, halves to the even one (Python's round).
RoundDiv(num, den) ==
    LET q == num \div den
        r == num % den
    IN  IF 2 * r < den THEN q
        ELSE IF 2 * r > den THEN q + 1
        ELSE IF q % 2 = 0 THEN q ELSE q + 1

\* Percent with a fault: the factor 100.0 is missing.
PercentUnscaled(num, den) == RoundDiv(num * 1000, den)

\* round(x * 100.0, 3) of x = num/den, in thousandths.
Percent(num, den) == RoundDiv(num * 100 * 1000, den)

RECURSIVE Product(_, _)
Product(f, S) ==
    IF S = {} THEN 1
    ELSE LET c == CHOOSE x \in S : TRUE IN f[c] * Product(f, S \ {c})

RECURSIVE Sum(_, _)
Sum(f, S) ==
    IF S = {} THEN 0
    ELSE LET c == CHOOSE x \in S : TRUE IN f[c] + Sum(f, S \ {c})

\* The support-weighted average of the per-label ratios n[c]/d[c], a ratio
\* with a zero denominator counting 0 (zero_division), as the fraction
\* <<numerator, denominator>> over the common denominator.
WeightedAverage(y, p, n, d) ==
    LET dd == [c \in Labels |-> IF d[c] = 0 THEN 1 ELSE d[c]]
        term == [c \in Labels |->
                    IF d[c] = 0 THEN 0
                    ELSE true_sum(y, p, c) * n[c] * Product(dd, Labels \ {c})]
    IN  <<Sum(term, Labels), Len(y) * Product(dd, Labels)>>

accuracy_score(y, p) == <<Count({i \in 1..Len(y) : y[i] = p[i]}), Len(y)>>

precision_score(y, p) ==
    WeightedAverage(y, p, [c \in Labels |-> tp_sum(y, p, c)],
                          [c \in Labels |-> pred_sum(y, p, c)])

recall_score(y, p) ==
    WeightedAverage(y, p, [c \in Labels |-> tp_sum(y, p, c)],
                          [c \in Labels |-> true_sum(y, p, c)])

f1_score(y, p) ==
    WeightedAverage(y, p, [c \in Labels |-> 2 * tp_sum(y, p, c)],
                          [c \in Labels |-> pred_sum(y, p, c) + true_sum(y, p, c)])

\* The one-row DataFrame of line 345.
get_score(y, p) ==
    [columns |-> <<"Accuracy", "Precision", "Recall", "F1-Score">>,
     rows |-> << <<Percent(accuracy_score(y, p)[1], accuracy_score(y, p)[2]),
                   Percent(precision_score(y, p)[1], precision_score(y, p)[2]),
                   Percent(recall_score(y, p)[1], recall_score(y, p)[2]),
                   Percent(f1_score(y, p)[1], f1_score(y, p)[2])>> >>]

(***************************************************************************)
(* fine_tune (src/utils.py:193-329): the test split, the test DataLoader   *)
(* and the evaluation loop.  A test example is named by its position in    *)
(* the test split.                                                         *)
(***************************************************************************)

\* The classes the arg-max ranges over.
Classes == {0, 1}

BioGPTBatch == 2

DefaultBatch == 8

\* Lines 264-278: the batch size of both loaders.
batch_size(mod) == IF mod = "BioGPT" THEN BioGPTBatch ELSE DefaultBatch

\* batches with a fault: drop_last=True, a last batch that is not
\* full is left out.
batches_drop_last(n, b) ==
    [k \in 1..(n \div b) |-> [j \in 1..b |-> (k - 1) * b + j]]

\* DataLoader(test_dataset, batch_size=b, shuffle=False) over n examples: the
\* batches it yields, each the dataset indices of its examples in order; the
\* last one holds what is left.
batches(n, b) ==
    [k \in 1..((n + b - 1) \div b) |->
        [j \in 1..(IF k * b <= n THEN b ELSE n - (k - 1) * b) |-> (k - 1) * b + j]]

\* Lines 255-256: test_texts and test_labels, lists in the order of the split.
test_texts(n) == [i \in 1..n |-> [text_of |-> i]]

test_labels(n) == [i \in 1..n |-> [label_of |-> i]]

\* Line 248: Test_csv, one row per test example, the index reset to 0..n-1.
Test_csv_init(n) == [i \in 1..n |-> [text |-> [text_of |-> i], category_label |-> [label_of |-> i]]]

\* Line 307: pd.concat([Test_csv, DataFrame(predictions)], axis=1) joins the
\* two on the row index: row i gets predictions[i], NaN where there is none.
concat_predictions(csv, preds) ==
    [i \in 1..(IF Len(csv) >= Len(preds) THEN Len(csv) ELSE Len(preds)) |->
        [text |-> IF i <= Len(csv) THEN csv[i].text ELSE NaN,
         category_label |-> IF i <= Len(csv) THEN csv[i].category_label ELSE NaN,
         Prediction_label |-> IF i <= Len(preds) THEN preds[i] ELSE NaN]]

(***************************************************************************)
(* get_confusion (lines 381-418).                                          *)
(***************************************************************************)

\* label_dict is read as the sequence of its items in insertion order, each a
\* record [key, value]; list(label_dict.keys()) is the keys in that order.
keys(label_dict) == [i \in 1..Len(label_dict) |-> label_dict[i].key]

\* sklearn's unique_labels(y_true, y_pred): the labels that occur in either
\* vector, in ascending order.  confusion_matrix uses it when it is given no
\* labels argument, as at line 400.
unique_labels(y, p) ==
    LET S == SeqRange(y) \cup SeqRange(p)
    IN  CHOOSE s \in [1..Cardinality(S) -> S] :
            \A i, j \in 1..Cardinality(S) : i < j => s[i] < s[j]

\* confusion_matrix(y, p) with sample_weight=None and normalize=None: row i and
\* column j count the examples whose true label is the i-th and whose
\* predicted label is the j-th of unique_labels.
confusion_matrix(y, p) ==
    LET labels == unique_labels(y, p)
    IN  [i \in 1..Len(labels) |->
            [j \in 1..Len(labels) |->
                Count({k \in 1..Len(y) : y[k] = labels[i] /\ p[k] = labels[j]})]]

\* Lines 400 and 407: the matrix and the tick labels passed to sns.heatmap.
get_confusion(y, p, label_dict) ==
    [cm |-> confusion_matrix(y, p),
     xticklabels |-> keys(label_dict),
     yticklabels |-> keys(label_dict)]

(***************************************************************************)
(* fine_tune, the training loop (lines 259-291).                           *)
(***************************************************************************)

BioGPTEpochs == 10
DefaultEpochs == 5

\* num_epochs, set in the branch on the tag (lines 271 and 278).
num_epochs(mod) == IF mod = "BioGPT" THEN BioGPTEpochs ELSE DefaultEpochs

Min(a, b) == IF a < b THEN a ELSE b

\* One iteration of train_dataloader: DataLoader(train_dataset, batch_size=b,
\* shuffle=True) draws the examples of an epoch in a random order without
\* replacement and keeps a short last batch, so the next batch is any b of the
\* examples not yet drawn, or all of them when fewer are left.  No batch is
\* left when every example was drawn.
next_batches(rem, b) ==
    {S \in SUBSET rem : S # {} /\ Cardinality(S) = Min(b, Cardinality(rem))}

\* The gradients of the parameters: "clear" after zero_grad, "fresh" when they
\* hold the gradient of one batch's loss, "accumulated" when loss.backward()
\* added to gradients that were not cleared.
backward(g) == IF g = "clear" THEN "fresh" ELSE "accumulated"

\* optimizer.zero_grad() with a fault: the gradients are left as they are.
zero_grad_kept(g) == g

zero_grad(g) == "clear"

NoCalls == [backward |-> 0, step |-> 0, zero_grad |-> 0]

(***************************************************************************)
(* The specifications.                                                     *)
(***************************************************************************)

Tables == UNION {[1..n -> Terms \X Terms] : n \in 0..MaxRows}

\* The tags of a model_dict: dict keys, so pairwise different.
Tags == {"", "A", "A_Raw", "A_fine_tune_notes", "BioGPT"}

ModelDicts ==
    {d \in UNION {[1..n -> Tags] : n \in 0..MaxModels} :
        \A i, j \in 1..Len(d) : i # j => d[i] # d[j]}

\* A term-matching table as the caller passes it: columns Term1 and Term2.
InitialTable(n) ==
    DataFrame(n, <<[name |-> "Term1", vals |-> [r \in 1..n |-> [cell |-> "Term1", row |-> r]]],
                   [name |-> "Term2", vals |-> [r \in 1..n |-> [cell |-> "Term2", row |-> r]]]>>)

GCIdle == gcTable = <<>> /\ gcResult = NoValue

AMIdle ==
    /\ model_dict = <<>>
    /\ word_pairs = <<>>
    /\ term_matching = InitialTable(0)
    /\ AllResult = <<>>
    /\ pc = "idle"
    /\ idx = 1
    /\ type_data = ""
    /\ model = NoValue
    /\ tokenizer = NoValue
    /\ ft = NoValue
    /\ trace = <<>>
    /\ outcome = NoValue

PreIdle == preText = <<>> /\ nerCased = TRUE /\ preResult = NoValue

ScIdle == y_ground = <<>> /\ y_pred_ground = <<>> /\ scoreResult = NoValue

EvIdle ==
    /\ evMod = ""
    /\ evN = 0
    /\ evPc = "idle"
    /\ test_dataloader = <<>>
    /\ evK = 1
    /\ predictions = <<>>
    /\ Test_csv = <<>>
    /\ perfArgs = NoValue

TrIdle ==
    /\ trMod = ""
    /\ trN = 0
    /\ trPc = "idle"
    /\ epoch = 0
    /\ remaining = {}
    /\ visits = <<>>
    /\ grads = "clear"
    /\ calls = NoCalls

CmIdle ==
    /\ cmLabelDict = <<>>
    /\ cmGround = <<>>
    /\ cmPred = <<>>
    /\ cmPlot = NoValue

GCInit ==
    /\ gcTable \in Tables
    /\ gcResult = NoValue
    /\ AMIdle /\ PreIdle /\ ScIdle /\ EvIdle /\ TrIdle /\ CmIdle

GCCall ==
    /\ gcResult = NoValue
    /\ gcResult' = get_components(gcTable)
    /\ UNCHANGED <<gcTable, amVars, preVars, cmVars, trVars, scVars, evVars>>

GCNext == GCCall

SpecGC == GCInit /\ [][GCNext]_vars

Init ==
    /\ model_dict \in ModelDicts
    /\ word_pairs \in {[i \in 1..k |-> i] : k \in 0..MaxPairs}
    /\ term_matching \in {InitialTable(n) : n \in 0..MaxTableRows}
    /\ AllResult = <<>>
    /\ pc = "start"
    /\ idx = 1
    /\ type_data = ""
    /\ model = NoValue
    /\ tokenizer = NoValue
    /\ ft = NoValue
    /\ trace = <<>>
    /\ outcome = NoValue
    /\ GCIdle /\ PreIdle /\ ScIdle /\ EvIdle /\ TrIdle /\ CmIdle

Next ==
    \/ AM_Start
    \/ AM_Load
    \/ AM_PlainSim
    \/ FT_Split
    \/ FT_Train
    \/ FT_Eval
    \/ FT_Save
    \/ FT_Metrics
    \/ FT_Sim
    \/ AM_Store
    \/ AM_Reload
    \/ AM_Return

Spec == Init /\ [][Next]_vars

\* preprocess on every text of up to MaxTextLen tokens.
Texts == UNION {[1..n -> Vocabulary] : n \in 0..MaxTextLen}

PreInit ==
    /\ preText \in Texts
    /\ nerCased \in BOOLEAN
    /\ preResult = NoValue
    /\ GCIdle /\ AMIdle /\ ScIdle /\ EvIdle /\ TrIdle /\ CmIdle

PreCall ==
    /\ preResult = NoValue
    /\ preResult' = preprocess(preText, nerCased)
    /\ UNCHANGED <<preText, nerCased, gcVars, cmVars, trVars, amVars, scVars, evVars>>

PreNext == PreCall

SpecPre == PreInit /\ [][PreNext]_vars

\* get_score on every pair of label vectors of one length, 1 to MaxSamples.
LabelVectors(n) == [1..n -> Labels]

ScoreInit ==
    /\ \E n \in 1..MaxSamples : y_ground \in LabelVectors(n) /\ y_pred_ground \in LabelVectors(n)
    /\ scoreResult = NoValue
    /\ GCIdle /\ AMIdle /\ PreIdle /\ EvIdle /\ TrIdle /\ CmIdle

ScoreCall ==
    /\ scoreResult = NoValue
    /\ scoreResult' = get_score(y_ground, y_pred_ground)
    /\ UNCHANGED <<y_ground, y_pred_ground, gcVars, amVars, preVars, cmVars, trVars, evVars>>

ScoreNext == ScoreCall

SpecScore == ScoreInit /\ [][ScoreNext]_vars

\* The evaluation of fine_tune on a test split of 1 to MaxTest examples.
EvalInit ==
    /\ evMod \in {"BioGPT", "A"}
    /\ evN \in 1..MaxTest
    /\ evPc = "start"
    /\ test_dataloader = <<>>
    /\ evK = 1
    /\ predictions = <<>>
    /\ Test_csv = <<>>
    /\ perfArgs = NoValue
    /\ GCIdle /\ AMIdle /\ PreIdle /\ ScIdle /\ TrIdle /\ CmIdle

\* Lines 236-279 and 296-297: the split, Test_csv, the test loader and the
\* empty predictions list.
EV_Prepare ==
    /\ evPc = "start"
    /\ Test_csv' = Test_csv_init(evN)
    /\ test_dataloader' = batches(evN, batch_size(evMod))
    /\ predictions' = <<>>
    /\ evK' = 1
    /\ evPc' = "eval"
    /\ UNCHANGED <<evMod, evN, perfArgs, gcVars, amVars, preVars, cmVars, trVars, scVars>>

\* Lines 299-305, one batch: the arg-max class of each example of the batch,
\* in batch order, appended to predictions.
EV_Batch ==
    /\ evPc = "eval"
    /\ evK <= Len(test_dataloader)
    /\ LET batch == test_dataloader[evK]
       IN  \E argmax \in [1..Len(batch) -> Classes] :
               predictions' = predictions \o
                   [j \in 1..Len(batch) |->
                       [of |-> test_texts(evN)[batch[j]].text_of, label |-> argmax[j]]]
    /\ evK' = evK + 1
    /\ UNCHANGED <<evMod, evN, evPc, test_dataloader, Test_csv, perfArgs,
                   gcVars, amVars, preVars, cmVars, trVars, scVars>>

\* Lines 307-323: the predictions join Test_csv and go, with test_labels, to
\* PerformanceMetrics.
EV_Finish ==
    /\ evPc = "eval"
    /\ evK > Len(test_dataloader)
    /\ Test_csv' = concat_predictions(Test_csv, predictions)
    /\ perfArgs' = [kind |-> "call", y_ground |-> test_labels(evN), y_pred_ground |-> predictions]
    /\ evPc' = "done"
    /\ UNCHANGED <<evMod, evN, test_dataloader, evK, predictions,
                   gcVars, amVars, preVars, cmVars, trVars, scVars>>

EvalNext ==
    \/ EV_Prepare
    \/ EV_Batch
    \/ EV_Finish

SpecEval == EvalInit /\ [][EvalNext]_vars

\* fine_tune's training loop on a training split of trN examples.  The model
\* handed over by Analyze_models comes from from_pretrained and was used only
\* under torch.no_grad(), so its gradients are clear when the loop starts.
TrainInit ==
    /\ trMod \in {"A", "BioGPT"}
    /\ trN \in 1..MaxTrain
    /\ trPc = "start"
    /\ epoch = 0
    /\ remaining = {}
    /\ visits = [i \in 1..trN |-> 0]
    /\ grads = "clear"
    /\ calls = NoCalls
    /\ GCIdle /\ AMIdle /\ PreIdle /\ ScIdle /\ EvIdle /\ CmIdle

\* Lines 259-281: the optimizer, the loaders and num_epochs are set up and the
\* first epoch's iteration of train_dataloader begins.
TR_Start ==
    /\ trPc = "start"
    /\ remaining' = 1..trN
    /\ trPc' = "fetch"
    /\ UNCHANGED <<trMod, trN, epoch, visits, grads, calls,
                   gcVars, amVars, preVars, cmVars, scVars, evVars>>

\* Line 283: "for batch in train_dataloader" yields the next batch.
TR_Fetch ==
    /\ trPc = "fetch"
    /\ \E batch \in next_batches(remaining, batch_size(trMod)) :
        /\ remaining' = remaining \ batch
        /\ visits' = [i \in 1..trN |-> IF i \in batch THEN visits[i] + 1 ELSE visits[i]]
    /\ trPc' = "backward"
    /\ UNCHANGED <<trMod, trN, epoch, grads, calls,
                   gcVars, amVars, preVars, cmVars, scVars, evVars>>

\* Lines 284-289: the forward pass, the loss and loss.backward().
TR_Backward ==
    /\ trPc = "backward"
    /\ grads' = backward(grads)
    /\ calls' = [calls EXCEPT !.backward = @ + 1]
    /\ trPc' = "step"
    /\ UNCHANGED <<trMod, trN, epoch, remaining, visits,
                   gcVars, amVars, preVars, cmVars, scVars, evVars>>

\* Line 290: optimizer.step().
TR_Step ==
    /\ trPc = "step"
    /\ calls' = [calls EXCEPT !.step = @ + 1]
    /\ trPc' = "zero_grad"
    /\ UNCHANGED <<trMod, trN, epoch, remaining, visits, grads,
                   gcVars, amVars, preVars, cmVars, scVars, evVars>>

\* Line 291: optimizer.zero_grad(); the loop goes on to the next batch.
TR_ZeroGrad ==
    /\ trPc = "zero_grad"
    /\ grads' = zero_grad(grads)
    /\ calls' = [calls EXCEPT !.zero_grad = @ + 1]
    /\ trPc' = "fetch"
    /\ UNCHANGED <<trMod, trN, epoch, remaining, visits,
                   gcVars, amVars, preVars, cmVars, scVars, evVars>>

\* The iteration of train_dataloader is exhausted: the epoch is over, and
\* "for epoch in range(num_epochs)" (line 281) starts the next one or ends.
TR_EpochEnd ==
    /\ trPc = "fetch"
    /\ next_batches(remaining, batch_size(trMod)) = {}
    /\ epoch' = epoch + 1
    /\ IF epoch + 1 < num_epochs(trMod)
         THEN remaining' = 1..trN /\ trPc' = "fetch"
         ELSE remaining' = {} /\ trPc' = "done"
    /\ UNCHANGED <<trMod, trN, visits, grads, calls,
                   gcVars, amVars, preVars, cmVars, scVars, evVars>>

TrainNext ==
    \/ TR_Start
    \/ TR_Fetch
    \/ TR_Backward
    \/ TR_Step
    \/ TR_ZeroGrad
    \/ TR_EpochEnd

SpecTrain == TrainInit /\ [][TrainNext]_vars

\* The label dictionaries: up to NumLabels categories, the keys in insertion
\* order, mapped one-to-one to the ids 0..k-1 in any order.
LabelDicts ==
    UNION {{d \in [1..k -> [key : 1..k, value : 0..(k - 1)]] :
               /\ \A i \in 1..k : d[i].key = i
               /\ \A i, j \in 1..k : i # j => d[i].value # d[j].value}
           : k \in 1..NumLabels}

\* get_confusion is called with a label dictionary and two vectors of equal
\* length whose entries are ids of the dictionary.
ConfInit ==
    /\ cmLabelDict \in LabelDicts
    /\ \E n \in 1..MaxPlotted :
        /\ cmGround \in [1..n -> 0..(Len(cmLabelDict) - 1)]
        /\ cmPred \in [1..n -> 0..(Len(cmLabelDict) - 1)]
    /\ cmPlot = NoValue
    /\ GCIdle /\ AMIdle /\ PreIdle /\ ScIdle /\ EvIdle /\ TrIdle

ConfCall ==
    /\ cmPlot = NoValue
    /\ cmPlot' = get_confusion(cmGround, cmPred, cmLabelDict)
    /\ UNCHANGED <<cmLabelDict, cmGround, cmPred,
                   gcVars, amVars, preVars, scVars, evVars, trVars>>

ConfNext ==
    \/ ConfCall

SpecConf == ConfInit /\ [][ConfNext]_vars

(***************************************************************************)
(* C1, C6: get_components.                                                 *)
(***************************************************************************)

\* The terms of a table, and "linked by a chain of rows", computed from the
\* rows alone: the least equivalence on the table's terms that holds every row.
TableTerms(t) == {t[i][1] : i \in 1..Len(t)} \cup {t[i][2] : i \in 1..Len(t)}

RowPairs(t) ==
    {<<x, x>> : x \in TableTerms(t)}
        \cup {<<t[i][1], t[i][2]>> : i \in 1..Len(t)}
        \cup {<<t[i][2], t[i][1]>> : i \in 1..Len(t)}

RECURSIVE Closure(_)
Closure(R) ==
    LET R2 == R \cup {<<p[1], q[2]>> : <<p, q>> \in {pq \in R \X R : pq[1][2] = pq[2][1]}}
    IN  IF R2 = R THEN R ELSE Closure(R2)

Linked(t) == Closure(RowPairs(t))

Returned == gcResult.kind = "return"

InComponent(cs, x) == {i \in 1..Len(cs) : x \in cs[i]}

\* C1: for every non-empty table, the components get_components returns are a
\* partition of the terms of Term1 and Term2 (each term in exactly one
\* component, no component empty or holding a foreign term), and two terms
\* share a component exactly when a chain of rows links them.
C1_ComponentsPartition ==
    Returned =>
        LET cs == gcResult.components
            ts == TableTerms(gcTable)
            linked == Linked(gcTable)
        IN  /\ gcTable # <<>>
            /\ \A x \in ts : Cardinality(InComponent(cs, x)) = 1
            /\ \A i \in 1..Len(cs) : cs[i] # {} /\ cs[i] \subseteq ts
            /\ \A x, y \in ts :
                  (InComponent(cs, x) \cap InComponent(cs, y) # {})
                      <=> (<<x, y>> \in linked)

\* A table with a self-pair, a duplicate-free chain and two components.
C1_Witness ==
    /\ Returned
    /\ Len(gcResult.components) >= 2
    /\ \E i \in 1..Len(gcResult.components) : Cardinality(gcResult.components[i]) >= 3
    /\ \E i \in 1..Len(gcTable) : gcTable[i][1] = gcTable[i][2]

\* C6: get_components raises exactly on the empty table, with ValueError
\* "Input dataframe is empty.", and then returns no component list.
C6_EmptyRaises ==
    gcResult # NoValue =>
        /\ (gcResult.kind = "raise") <=> (gcTable = <<>>)
        /\ gcResult.kind = "raise" =>
              /\ gcResult.error = "ValueError"
              /\ gcResult.msg = "Input dataframe is empty."
              /\ "components" \notin DOMAIN gcResult

C6_Witness == gcResult.kind = "raise" /\ gcTable = <<>>

(***************************************************************************)
(* C2, C3, C4, C5, C9: an Analyze_models sweep.                            *)
(***************************************************************************)

EntryOf(R, key) == R[CHOOSE i \in 1..Len(R) : R[i].key = key].value

\* What fine_tune returns for a tag and a text column: scores and report of
\* the tag's model, fine-tuned on that column and on nothing else.
FromPass(value, tag, column) ==
    /\ DOMAIN value = {"Scores", "Report"}
    /\ value.Scores = <<"Scores", [tag |-> tag, loader |-> Loader(tag), tuned |-> <<column>>]>>
    /\ value.Report = <<"Report", [tag |-> tag, loader |-> Loader(tag), tuned |-> <<column>>]>>

\* C2: the results mapping Analyze_models returns over n tags has exactly 2n
\* entries, tag_Raw and tag_Preprocess for every tag, each holding the Scores
\* and Report of that tag's own pass: no entry is overwritten by another tag's.
C2_TwoEntriesPerTag ==
    outcome.kind = "return" =>
        LET R == outcome.AllResult
            n == Len(model_dict)
        IN  /\ Len(R) = 2 * n
            /\ {R[i].key : i \in 1..Len(R)} =
                   {model_dict[t] \o "_Raw" : t \in 1..n}
                       \cup {model_dict[t] \o "_Preprocess" : t \in 1..n}
            /\ \A t \in 1..n :
                  /\ FromPass(EntryOf(R, model_dict[t] \o "_Raw"), model_dict[t], "notes")
                  /\ FromPass(EntryOf(R, model_dict[t] \o "_Preprocess"), model_dict[t],
                              "notes_preprocess")

\* A completed sweep over a tag and the tag that is its raw key.
C2_Witness ==
    /\ outcome.kind = "return"
    /\ model_dict = <<"A", "A_Raw">>

\* C3 as stated: no step of a run changes the row count of the term-matching
\* table, and no step removes a column.
C3_RowsConstantColumnsGrow ==
    [][/\ term_matching'.nrows = term_matching.nrows
       /\ ColNames(term_matching) \subseteq ColNames(term_matching')]_vars

SimCallReturns == pc \in {"plain_sim", "ft_sim"} /\ pc' \in {"ft_split", "store"}

SimCallTag == IF pc = "plain_sim" THEN Mod ELSE Mod \o "_fine_tune_" \o type_data

\* C4 as stated: every get_plain_embedding_similarity call that returns leaves
\* the table with exactly one more column, the last, named
\* tag_Cosine_Similarity, holding the similarity of each word pair in
\* word_pairs order, with as many rows as word_pairs, and every earlier
\* column as it was.
C4_OneNewColumn ==
    [][SimCallReturns =>
         LET old == term_matching.cols
             new == term_matching'.cols
         IN  /\ Len(new) = Len(old) + 1
             /\ new[Len(new)].name = SimCallTag \o "_Cosine_Similarity"
             /\ new[Len(new)].vals =
                    [i \in 1..Len(word_pairs) |-> similarity(model, word_pairs[i])]
             /\ term_matching'.nrows = Len(word_pairs)
             /\ \A i \in 1..Len(old) : new[i] = old[i]]_vars

\* C5: a step that fails is the last step of the run: the failure reaches the
\* caller, who gets no results mapping, and nothing is loaded or fine-tuned
\* after it.
C5_FailurePropagates ==
    /\ \A k \in 1..Len(trace) :
          ~trace[k].ok => k = Len(trace) /\ pc = "raised" /\ outcome.kind = "raise"
    /\ outcome.kind = "raise" => "AllResult" \notin DOMAIN outcome /\ pc = "raised"
    /\ pc = "raised" => ~ENABLED Next

\* Training fails for the second tag, after the first tag's two entries are in
\* AllResult.
C5_Witness ==
    /\ outcome.kind = "raise"
    /\ outcome.at = "train"
    /\ idx = 2
    /\ Len(AllResult) = 2

\* The steps of one tag in order: the step, the text column of the fine_tune
\* call it belongs to, and the columns the model the step is given was
\* fine-tuned on so far ("-" for the first load, which is given none).
ExpectedSteps ==
    << <<"load", "", "-">>,
       <<"plain_sim", "", <<>> >>,
       <<"split", "notes", <<>> >>,
       <<"train", "notes", <<>> >>,
       <<"eval", "notes", <<"notes">> >>,
       <<"save", "notes", <<"notes">> >>,
       <<"metrics", "notes", <<"notes">> >>,
       <<"ft_sim", "notes", <<"notes">> >>,
       <<"store", "notes", <<"notes">> >>,
       <<"reload", "", <<"notes">> >>,
       <<"split", "notes_preprocess", <<>> >>,
       <<"train", "notes_preprocess", <<>> >>,
       <<"eval", "notes_preprocess", <<"notes_preprocess">> >>,
       <<"save", "notes_preprocess", <<"notes_preprocess">> >>,
       <<"metrics", "notes_preprocess", <<"notes_preprocess">> >>,
       <<"ft_sim", "notes_preprocess", <<"notes_preprocess">> >>,
       <<"store", "notes_preprocess", <<"notes_preprocess">> >> >>

\* C9: the steps run are, tag after tag in model_dict order, the steps of one
\* tag in their order, each completed before the next: load, raw similarity
\* on the model as loaded, the fine_tune cycle on notes, reload, the fine_tune
\* cycle on notes_preprocess, which is given a freshly loaded model.
C9_StepOrder ==
    \A k \in 1..Len(trace) :
        LET t == ((k - 1) \div Len(ExpectedSteps)) + 1
            e == ExpectedSteps[((k - 1) % Len(ExpectedSteps)) + 1]
        IN  /\ t <= Len(model_dict)
            /\ trace[k].tag = model_dict[t]
            /\ trace[k].op = e[1]
            /\ trace[k].column = e[2]
            /\ e[1] # "load" => /\ trace[k].model.tag = model_dict[t]
                                /\ trace[k].model.tuned = e[3]

\* The second tag's preprocessed pass trains.
C9_Witness ==
    \E k \in 1..Len(trace) :
        /\ trace[k].op = "train"
        /\ trace[k].column = "notes_preprocess"
        /\ Len(model_dict) = 2
        /\ trace[k].tag = model_dict[2]
        /\ trace[k].ok

(***************************************************************************)
(* C7: preprocess.                                                         *)
(***************************************************************************)

\* C7 as stated: the third value preprocess returns is the entity list of the
\* normalized text, its second value.
C7_EntitiesOfNormalizedText ==
    preResult.kind = "return" =>
        preResult.value[3] = ents(preResult.value[2], nerCased, 1)

(***************************************************************************)
(* C8: get_score.                                                          *)
(***************************************************************************)

\* C8: get_score returns one row under exactly the columns Accuracy,
\* Precision, Recall, F1-Score, each value between 0 and 100 (0 and 100000
\* thousandths); predictions equal to the ground truth give 100 four times.
C8_ScoreTable ==
    scoreResult # NoValue =>
        /\ scoreResult.columns = <<"Accuracy", "Precision", "Recall", "F1-Score">>
        /\ Len(scoreResult.rows) = 1
        /\ Len(scoreResult.rows[1]) = 4
        /\ \A k \in 1..4 : scoreResult.rows[1][k] \in 0..100000
        /\ y_pred_ground = y_ground => \A k \in 1..4 : scoreResult.rows[1][k] = 100000

\* A perfect prediction over several labels.
C8_Witness ==
    /\ scoreResult # NoValue
    /\ y_pred_ground = y_ground
    /\ Cardinality({y_ground[i] : i \in 1..Len(y_ground)}) >= 2

(***************************************************************************)
(* C10: the evaluation loop of fine_tune.                                  *)
(***************************************************************************)

\* C10: the predictions collected so far are those of the first test
\* examples in test order; once evaluation is over there is exactly one per
\* test example, and the i-th is the one PerformanceMetrics gets beside the
\* i-th test label and the one in row i of the test_predictions table.
C10_PredictionsAligned ==
    /\ \A i \in 1..Len(predictions) : predictions[i].of = i
    /\ evPc = "done" =>
          /\ Len(predictions) = evN
          /\ Len(perfArgs.y_ground) = evN
          /\ Len(perfArgs.y_pred_ground) = evN
          /\ Len(Test_csv) = evN
          /\ \A i \in 1..evN :
                /\ perfArgs.y_ground[i].label_of = i
                /\ perfArgs.y_pred_ground[i] = predictions[i]
                /\ Test_csv[i].text.text_of = i
                /\ Test_csv[i].category_label.label_of = i
                /\ Test_csv[i].Prediction_label = predictions[i]

\* A test split of several batches whose last batch is not full.
C10_Witness ==
    /\ evPc = "done"
    /\ evN > batch_size(evMod)
    /\ evN % batch_size(evMod) # 0


(***************************************************************************)
(* C11: the training loop of fine_tune.                                    *)
(***************************************************************************)

\* ceil(n / b), the number of batches of n examples in batches of b.
CeilDiv(n, b) == (n + b - 1) \div b

\* The batches begun so far: those of the completed epochs and those of the
\* epoch under way.
BatchesBegun ==
    LET b == IF trMod = "BioGPT" THEN 2 ELSE 8
    IN  epoch * CeilDiv(trN, b)
            + (IF trPc = "done" THEN 0 ELSE CeilDiv(trN - Cardinality(remaining), b))

IdOfKey(i) == cmLabelDict[i].value

\* C12: the matrix has one row and one column per key of label_dict, and row i,
\* column j counts the examples whose true label id is the one the i-th key
\* maps to and whose predicted label id is the one the j-th key maps to, so
\* that the i-th tick label names the category of row i and of column i.
C12_AxesInKeyOrder ==
    cmPlot # NoValue =>
        /\ cmPlot.xticklabels = keys(cmLabelDict)
        /\ cmPlot.yticklabels = keys(cmLabelDict)
        /\ Len(cmPlot.cm) = Len(cmLabelDict)
        /\ \A i, j \in 1..Len(cmLabelDict) :
             /\ Len(cmPlot.cm[i]) = Len(cmLabelDict)
             /\ cmPlot.cm[i][j] =
                  Count({k \in 1..Len(cmGround) :
                            cmGround[k] = IdOfKey(i) /\ cmPred[k] = IdOfKey(j)})

====
